---- MODULE Spec2Model ----
(***************************************************************************)
(* Magma Modular Proxy (src/src/main.rs): the accept loop of main and the  *)
(* per-connection task handle_client_conn -- handshake classification, the *)
(* rule-5 synthetic exchange, route resolution and the bidirectional copy. *)
(* Every action is one segment of the code between two suspension points   *)
(* (.await); socket and database results are the environment's choice.     *)
(***************************************************************************)
EXTENDS Integers, Sequences, FiniteSets, TLC

VARIABLES
    listener,         \* main's accept loop: [state, last_accept]
    task,             \* per connection: the locals of handle_client_conn
    client,           \* per connection: the client TcpStream
    server,           \* per connection: the backend TcpStream
    protocol_rules,   \* the protocol_rules table: rows <<id, host, protocol>>
    overflow_checks,  \* whether the build panics on integer overflow
    var_int           \* a call of read_var_int on its own: its buffer and result

vars == <<listener, task, client, server, protocol_rules, overflow_checks, var_int>>

----------------------------------------------------------------------------
(* Bounds of the model.                                                    *)

MaxLen == 2        \* exhaustive first reads over ByteSample have 1..MaxLen bytes
MaxVarLen == 5     \* bytes of the protocol varint tried after a rule-1 head
MaxPayload == 5    \* payload bytes tried after a rule-5 header
MaxCopy == 2       \* bytes each direction of the splice offers

(* Program constants.                                                      *)

BufSize == 1024        \* vec![0u8; 1024]
LoginSize == 5         \* vec![0u8; 5]
HeaderSize == 3        \* vec![0u8; 3]
SEGMENT_BITS == 127    \* 0b0111_1111
CONTINUE_BIT == 128    \* 0b1000_0000

----------------------------------------------------------------------------
(* Fixed-width integers.  A u32 is two and a 64-bit usize four 16-bit      *)
(* limbs, least significant first.                                         *)

Limb == 2^16

RECURSIVE BitAnd(_, _)
BitAnd(a, b) ==
    IF a = 0 \/ b = 0 THEN 0
    ELSE (a % 2) * (b % 2) + 2 * BitAnd(a \div 2, b \div 2)

RECURSIVE BitOr(_, _)
BitOr(a, b) ==
    IF a = 0 THEN b
    ELSE IF b = 0 THEN a
    ELSE (IF a % 2 = 1 \/ b % 2 = 1 THEN 1 ELSE 0) + 2 * BitOr(a \div 2, b \div 2)

Zero(w) == [i \in 1..w |-> 0]

\* n as a w-limb value, for 0 <= n < 2^31
FromNat(n, w) ==
    [i \in 1..w |-> IF i = 1 THEN n % Limb ELSE IF i = 2 THEN n \div Limb ELSE 0]

LimbsOr(a, b) == [i \in 1..Len(a) |-> BitOr(a[i], b[i])]

\* (seg as u32) << position, for seg < 2^7 and position < 32: the bits shifted
\* past bit 31 are lost
ShlU32(seg, position) ==
    IF position < 16
    THEN <<(seg * 2^position) % Limb, (seg * 2^position) \div Limb>>
    ELSE <<0, (seg * 2^(position - 16)) % Limb>>

\* a - b modulo 2^(16 w), for naturals a, b < 2^16
WrappingSub(a, b, w) ==
    IF a >= b THEN FromNat(a - b, w)
    ELSE [i \in 1..w |-> IF i = 1 THEN a - b + Limb ELSE Limb - 1]

\* a / 2 on limbs
Half(a) ==
    [i \in 1..Len(a) |->
        (a[i] \div 2) + (IF i < Len(a) THEN (a[i + 1] % 2) * (Limb \div 2) ELSE 0)]

\* (x as usize) for an i16 x: sign extension to four limbs
I16AsUsize(x) ==
    IF x >= 0 THEN FromNat(x, 4)
    ELSE [i \in 1..4 |-> IF i = 1 THEN x + Limb ELSE Limb - 1]

\* i16::from_be_bytes
I16(hi, lo) ==
    LET u == hi * 256 + lo IN IF u >= Limb \div 2 THEN u - Limb ELSE u

\* i32::from_be_bytes: the value fits TLC's integers
I32(b1, b2, b3, b4) ==
    (IF b1 >= 128 THEN b1 - 256 ELSE b1) * 2^24 + b2 * 2^16 + b3 * 256 + b4

----------------------------------------------------------------------------
(* format!("{}", v): decimal digits.                                       *)

Digits == <<"0", "1", "2", "3", "4", "5", "6", "7", "8", "9">>

RECURSIVE DecNat(_)
DecNat(n) ==
    IF n < 10 THEN Digits[n + 1] ELSE DecNat(n \div 10) \o Digits[(n % 10) + 1]

\* quotient and remainder of a two-limb u32 by 10
DivTen(v) ==
    LET qh == v[2] \div 10
        r  == (v[2] % 10) * Limb + v[1]
    IN  [q |-> <<r \div 10, qh>>, r |-> r % 10]

RECURSIVE DecU32(_)
DecU32(v) ==
    IF v[2] = 0 THEN DecNat(v[1])
    ELSE DecU32(DivTen(v).q) \o Digits[DivTen(v).r + 1]

\* Display of an i32; the magnitude of i32::MIN is 2^31, which is <<0, 2^15>>
DecI32(x) ==
    IF x >= 0 THEN DecNat(x)
    ELSE IF x = -(2^30) - 2^30 THEN "-" \o DecU32(<<0, Limb \div 2>>)
    ELSE "-" \o DecNat(-x)

----------------------------------------------------------------------------
(* The codec helpers.                                                      *)

\* buf[i] of the 1024-byte buffer whose first Len(data) bytes were read and
\* whose other bytes are still the zeros of vec![0u8; 1024]; i counts from 0
BufAt(data, i) == IF i < Len(data) THEN data[i + 1] ELSE 0

\* VarIntLoop as it would be if a varint ended with its fourth byte
RECURSIVE VarIntLoopFourBytes(_, _, _, _)
VarIntLoopFourBytes(data, at, value, position) ==
    IF at >= BufSize THEN [value |-> value, at |-> at, panic |-> TRUE]
    ELSE
        LET current_byte == BufAt(data, at)
            v == LimbsOr(value, ShlU32(BitAnd(current_byte, SEGMENT_BITS), position))
        IN  IF BitAnd(current_byte, CONTINUE_BIT) = 0
            THEN [value |-> v, at |-> at + 1, panic |-> FALSE]
            ELSE IF position + 7 >= 28
            THEN [value |-> v, at |-> at + 1, panic |-> TRUE]
            ELSE VarIntLoopFourBytes(data, at + 1, v, position + 7)

\* read_var_int from offset at: the value, the offset after it, and whether
\* it panicked (get_u8 past the end of the buffer panics too)
RECURSIVE VarIntLoop(_, _, _, _)
VarIntLoop(data, at, value, position) ==
    IF at >= BufSize THEN [value |-> value, at |-> at, panic |-> TRUE]
    ELSE
        LET current_byte == BufAt(data, at)
            v == LimbsOr(value, ShlU32(BitAnd(current_byte, SEGMENT_BITS), position))
        IN  IF BitAnd(current_byte, CONTINUE_BIT) = 0
            THEN [value |-> v, at |-> at + 1, panic |-> FALSE]
            ELSE IF position + 7 >= 32
            THEN [value |-> v, at |-> at + 1, panic |-> TRUE]
            ELSE VarIntLoop(data, at + 1, v, position + 7)

read_var_int(data, at) == VarIntLoop(data, at, Zero(2), 0)

\* x.to_be_bytes() of a 16-bit value
Be16(x) == <<(x % Limb) \div 256, x % 256>>

\* mutf8::encode of one code point of the basic plane
Mutf8(cp) ==
    IF cp >= 1 /\ cp <= 127 THEN <<cp>>
    ELSE IF cp <= 2047 THEN <<192 + (cp \div 64), 128 + (cp % 64)>>
    ELSE <<224 + (cp \div 4096), 128 + ((cp \div 64) % 64), 128 + (cp % 64)>>

RECURSIVE Flatten(_)
Flatten(ss) == IF ss = <<>> THEN <<>> ELSE Head(ss) \o Flatten(Tail(ss))

\* string16_encode and string8_encode of a string given as its code points
string16_encode(str) == Be16(Len(str)) \o Flatten([i \in 1..Len(str) |-> Be16(str[i])])

string8_encode(str) == Be16(Len(str)) \o Flatten([i \in 1..Len(str) |-> Mutf8(str[i])])

Dash == <<45>>     \* "-"

\* the bytes the rule-5 branch writes to the client: write_u8(0x02), then the
\* encoded "-"
ReplyString(is_ucs2) == IF is_ucs2 THEN string16_encode(Dash) ELSE string8_encode(Dash)

----------------------------------------------------------------------------
(* The classifier: lines 62-114 up to the first suspension point.          *)

\* is_ucs2 = (str_bytes_length / 2) == str_length as usize, with
\* str_bytes_length = read_count - 3 wrapped to 64 bits
Framing(read_count, str_length) ==
    Half(WrappingSub(read_count, 3, 4)) = I16AsUsize(str_length)

\* Branch with the old handshake (rule 5) tested before the new one (rule 3)
BranchOldHandshakeFirst(data) ==
    LET read_count == Len(data)
        b0 == BufAt(data, 0)
        b1 == BufAt(data, 1)
    IN  IF read_count > 1 /\ b1 = 0 /\ b0 # 0 /\ b0 # 2 THEN 1
        ELSE IF b0 = 254 /\ b1 = 1 THEN 2
        ELSE IF b0 = 2 THEN 5
        ELSE IF b0 = 2 /\ b1 <= 80 /\ b1 >= 33 THEN 3
        ELSE IF b0 = 254 /\ read_count = 1 THEN 4
        ELSE 6

\* the branch of the if/else-if chain that is taken
Branch(data) ==
    LET read_count == Len(data)
        b0 == BufAt(data, 0)
        b1 == BufAt(data, 1)
    IN  IF read_count > 1 /\ b1 = 0 /\ b0 # 0 /\ b0 # 2 THEN 1
        ELSE IF b0 = 254 /\ b1 = 1 THEN 2
        ELSE IF b0 = 2 /\ b1 <= 80 /\ b1 >= 33 THEN 3
        ELSE IF b0 = 254 /\ read_count = 1 THEN 4
        ELSE IF b0 = 2 THEN 5
        ELSE 6

\* NettyProtocol as it would be if two bytes were skipped after the length
NettyProtocolSkipsTwo(data) ==
    LET length == read_var_int(data, 0)
    IN  IF length.panic THEN length ELSE read_var_int(data, length.at + 2)

\* rule 1: the packet length varint, one skipped byte, the protocol varint
NettyProtocol(data) ==
    LET length == read_var_int(data, 0)
    IN  IF length.panic THEN length ELSE read_var_int(data, length.at + 1)

\* what the classification yields before its first .await:
\*   "tag"    protocol_version is computed
\*   "reply"  rule 5: flags set, the synthetic reply is about to be written
\*   "panic"  the task panicked
Classify(data, checks) ==
    LET read_count == Len(data)
        branch == Branch(data)
        none == [branch |-> branch, outcome |-> "tag", protocol_version |-> "",
                 block_connection_hash_response |-> FALSE, is_ucs2 |-> TRUE]
    IN  CASE branch = 1 ->
                LET protocol == NettyProtocol(data)
                IN  IF protocol.panic THEN [none EXCEPT !.outcome = "panic"]
                    ELSE [none EXCEPT !.protocol_version = "N" \o DecU32(protocol.value)]
          [] branch = 2 -> [none EXCEPT !.protocol_version = "PreNettyPost39ListPing"]
          [] branch = 3 -> [none EXCEPT !.protocol_version = "P" \o DecNat(BufAt(data, 1))]
          [] branch = 4 -> [none EXCEPT !.protocol_version = "PreNettyPre39ListPing"]
          [] branch = 5 ->
                LET str_length == I16(BufAt(data, 1), BufAt(data, 2))
                IN  IF checks /\ read_count < 3
                    THEN [none EXCEPT !.outcome = "panic"]
                    ELSE [none EXCEPT !.outcome = "reply",
                                      !.block_connection_hash_response = TRUE,
                                      !.is_ucs2 = Framing(read_count, str_length)]
          [] OTHER -> [none EXCEPT !.protocol_version = "Unknown"]

\* AfterClassify with the Unknown branch made a panic
AfterClassifyPanicUnknown(r) ==
    IF r.outcome = "panic" \/ r.protocol_version = "Unknown" THEN "panic"
    ELSE IF r.outcome = "reply" THEN "write_reply_id"
    ELSE "get_conn"

\* where the task is once the classification has run: unwound by a panic, at
\* write_u8 (lines 93, 96), or at pool.get_conn() (line 117)
AfterClassify(r) ==
    IF r.outcome = "panic" THEN "panic"
    ELSE IF r.outcome = "reply" THEN "write_reply_id"
    ELSE "get_conn"

\* the tag of the rule-5 branch, from the five bytes of the second read
LoginTag(second_stage_buffer) ==
    "P" \o DecI32(I32(second_stage_buffer[2], second_stage_buffer[3],
                      second_stage_buffer[4], second_stage_buffer[5]))

----------------------------------------------------------------------------
(* Route resolution and the drain of the backend's reply.                  *)

default_server == "default:25565"

\* exec_first("SELECT * FROM protocol_rules WHERE protocol = ?"): the first
\* matching row as <<row>>, or <<>> for None
exec_first(rules, protocol) ==
    LET hits == {i \in 1..Len(rules) : rules[i][3] = protocol}
    IN  IF hits = {} THEN <<>>
        ELSE <<rules[CHOOSE i \in hits : \A j \in hits : i <= j]>>

\* BackendServer taking the row's third column, the protocol, as the host
BackendServerProtocolColumn(backend_servers) ==
    IF backend_servers # <<>> THEN backend_servers[1][3] ELSE default_server

\* if let Some(backend) = backend_servers { backend.1 } else { default_server }
BackendServer(backend_servers) ==
    IF backend_servers # <<>> THEN backend_servers[1][2] ELSE default_server

\* PreludeBytes taken from behind the cursor that the classifier advanced
PreludeBytesBehindCursor(buf_raw, read_count) == SubSeq(buf_raw, 2, read_count)

\* PreludeBytes as the whole 1024-byte buffer, its zeros included
PreludeBytesWholeBuffer(buf_raw, read_count) == [i \in 1..BufSize |-> BufAt(buf_raw, i - 1)]

\* &buf_raw[..read_count]
PreludeBytes(buf_raw, read_count) == SubSeq(buf_raw, 1, read_count)

\* AfterPrelude without the drain of the backend's reply
AfterPreludeNoDrain(block_connection_hash_response) ==
    IF block_connection_hash_response THEN "write_login" ELSE "splice"

\* where the task goes once the prelude is written
AfterPrelude(block_connection_hash_response) ==
    IF block_connection_hash_response THEN "read_reply_header" ELSE "splice"

\* buf_temp_size as usize, or a panic: the i16 product overflows (a panic with
\* overflow checks, a wrap without), and a negative size is a capacity
\* overflow of vec![0u8; n]
DrainSize(is_ucs2, str_length, checks) ==
    LET product == str_length * 2
        fits == product >= -(Limb \div 2) /\ product < Limb \div 2
        buf_temp_size ==
            IF ~is_ucs2 THEN str_length
            ELSE IF fits THEN product
            ELSE I16(((product + Limb) % Limb) \div 256, product % 256)
    IN  IF is_ucs2 /\ ~fits /\ checks THEN [panic |-> TRUE, size |-> 0]
        ELSE IF buf_temp_size < 0 THEN [panic |-> TRUE, size |-> 0]
        ELSE [panic |-> FALSE, size |-> buf_temp_size]

----------------------------------------------------------------------------
(* The environment: what clients, backends and the table can hold.         *)

Conns == {"c1"}

ByteSample == {0, 1, 2, 16, 32, 33, 80, 81, 128, 254, 255}

VarBytes == {1, 127, 128, 255}

Seqs(S, lo, hi) == UNION {[1..n -> S] : n \in lo..hi}

ShortReads == Seqs(ByteSample, 1, MaxLen)

VarReads == {h \o t : h \in {<<16, 0>>, <<129, 0, 0>>}, t \in Seqs(VarBytes, 0, MaxVarLen)}

Rule5Reads ==
    {<<2, hi, lo>> \o [i \in 1..p |-> 65] :
        hi \in {0, 128, 255}, lo \in 0..3, p \in 0..MaxPayload}

ClassifierReads == ShortReads \cup VarReads \cup Rule5Reads

\* a handshake whose packet id is followed by a zero byte
HandshakeExample ==
    <<16, 0, 0, 210, 4, 9, 108, 111, 99, 97, 108, 104, 111, 115, 116, 99, 221, 1>>

ScenarioReads ==
    { <<>>,
      HandshakeExample,
      <<16, 0, 242, 5>>,
      <<16, 0, 128, 128, 128, 128, 128>>,
      <<254, 1>>,
      <<2, 78>>,
      <<254>>,
      <<255, 255, 255>>,
      <<2, 0, 1, 0, 104>>,
      <<2, 0, 2, 104, 105>>,
      <<2>> }

Logins == {<<1, 0, 0, 0, 17>>, <<1, 0, 0, 0, 0>>, <<1, 255, 255, 255, 255>>, <<1, 128, 0, 0, 0>>}

ScenarioLogins == {<<1, 0, 0, 0, 17>>, <<1, 255, 255, 255, 255>>}

Headers == {<<2, 0, 0>>, <<2, 0, 1>>, <<2, 64, 0>>, <<2, 255, 255>>}

RuleTables ==
    { <<>>,
      << <<1, "legacy:25565", "P17">>,
         <<2, "modern:25565", "N754">>,
         <<3, "honeypot:25565", "Unknown">>,
         <<4, "beta:25565", "P78">> >> }

\* the bytes each side sends once the handshake is over
ClientStream == [i \in 1..MaxCopy |-> 160 + i]

ServerStream == [i \in 1..MaxCopy |-> 176 + i]

Prefixes(s) == {SubSeq(s, 1, k) : k \in 0..(Len(s) - 1)}

----------------------------------------------------------------------------
(* State.                                                                  *)

NewCopy == [state |-> "idle", buf |-> <<>>, amt |-> 0]

NewTask ==
    [pc |-> "idle", exit |-> "running", ended_at |-> "",
     buf_raw |-> <<>>, read_count |-> 0,
     second_stage_buffer |-> [i \in 1..LoginSize |-> 0],
     block_connection_hash_response |-> FALSE, is_ucs2 |-> TRUE,
     protocol_version |-> "", backend_servers |-> <<>>, backend_server |-> "",
     buf_temp_size |-> 0, lookups |-> 0, connects |-> 0,
     client_to_server |-> NewCopy, server_to_client |-> NewCopy]

\* a stream: whether it is open, the bytes read from it and written to it; the
\* backend's drained reply is kept apart (its header, and its body's length)
NewStream ==
    [open |-> FALSE, addr |-> "", recv |-> <<>>, sent |-> <<>>,
     header |-> <<>>, body |-> 0]

\* no call of read_var_int on its own
NoVarInt == [buf |-> <<>>, done |-> FALSE, value |-> Zero(2), at |-> 0, panic |-> FALSE]

Init ==
    /\ listener = [state |-> "listening", last_accept |-> "none"]
    /\ task = [c \in Conns |-> NewTask]
    /\ client = [c \in Conns |-> NewStream]
    /\ server = [c \in Conns |-> NewStream]
    /\ protocol_rules \in RuleTables
    /\ overflow_checks \in BOOLEAN
    /\ var_int = NoVarInt

Ended(t, how) == [t EXCEPT !.pc = "ended", !.exit = how, !.ended_at = t.pc]

\* Closed as it would be if a dropped stream stayed open
ClosedStaysOpen(s) == s

Closed(s) == [s EXCEPT !.open = FALSE]

Update(c, t, cl, sv) ==
    /\ task' = [task EXCEPT ![c] = t]
    /\ client' = [client EXCEPT ![c] = cl]
    /\ server' = [server EXCEPT ![c] = sv]
    /\ UNCHANGED <<listener, protocol_rules, overflow_checks, var_int>>

\* Finish as it would be if a failing task took the process down: the
\* listener stops and every other task is dropped with it
FinishAbortsProcess(c, t, how, cl, sv) ==
    /\ listener' = [listener EXCEPT !.state = IF how = "ok" THEN @ ELSE "stopped"]
    /\ task' = [d \in DOMAIN task |->
                  IF d = c THEN Ended(t, how)
                  ELSE IF how # "ok" /\ task[d].pc \notin {"idle", "ended"}
                       THEN Ended(task[d], "cancelled") ELSE task[d]]
    /\ client' = [d \in DOMAIN task |->
                  IF d = c THEN Closed(cl)
                  ELSE IF how # "ok" THEN Closed(client[d]) ELSE client[d]]
    /\ server' = [d \in DOMAIN task |->
                  IF d = c THEN Closed(sv)
                  ELSE IF how # "ok" THEN Closed(server[d]) ELSE server[d]]
    /\ UNCHANGED <<protocol_rules, overflow_checks, var_int>>

\* the task returns or unwinds: client and server are dropped
Finish(c, t, how, cl, sv) == Update(c, Ended(t, how), Closed(cl), Closed(sv))

Live(t) == t.pc \notin {"idle", "ended"}

----------------------------------------------------------------------------
(* main: the accept loop.                                                  *)

\* Accept as it would be if the loop awaited handle_client_conn instead of
\* spawning it: no accept while a connection is being handled
AcceptAwaitsHandler(c) ==
    /\ listener.state = "listening"
    /\ task[c].pc = "idle"
    /\ \A d \in DOMAIN task : task[d].pc \in {"idle", "ended"}
    /\ listener' = [listener EXCEPT !.last_accept = "ok"]
    /\ task' = [task EXCEPT ![c].pc = "read_first"]
    /\ client' = [client EXCEPT ![c].open = TRUE]
    /\ UNCHANGED <<server, protocol_rules, overflow_checks, var_int>>

\* accept() returns Ok: the task is spawned
Accept(c) ==
    /\ listener.state = "listening"
    /\ task[c].pc = "idle"
    /\ listener' = [listener EXCEPT !.last_accept = "ok"]
    /\ task' = [task EXCEPT ![c].pc = "read_first"]
    /\ client' = [client EXCEPT ![c].open = TRUE]
    /\ UNCHANGED <<server, protocol_rules, overflow_checks, var_int>>

\* accept() returns Err: while let ends, main returns and the runtime shuts
\* down, which drops every task at its suspension point
AcceptErr ==
    /\ listener.state = "listening"
    /\ listener' = [state |-> "stopped", last_accept |-> "err"]
    /\ task' = [c \in DOMAIN task |->
                  IF Live(task[c]) THEN Ended(task[c], "cancelled") ELSE task[c]]
    /\ client' = [c \in DOMAIN task |-> Closed(client[c])]
    /\ server' = [c \in DOMAIN task |-> Closed(server[c])]
    /\ UNCHANGED <<protocol_rules, overflow_checks, var_int>>

----------------------------------------------------------------------------
(* handle_client_conn: classification.                                     *)

\* lines 51-114: the first read returns, and the code runs to its next .await
FirstRead(c, reads) ==
    /\ task[c].pc = "read_first"
    /\ \/ \E data \in reads :
            LET r == Classify(data, overflow_checks)
                cl == [client[c] EXCEPT !.recv = data]
                t == [task[c] EXCEPT
                        !.buf_raw = data,
                        !.read_count = Len(data),
                        !.block_connection_hash_response = r.block_connection_hash_response,
                        !.is_ucs2 = r.is_ucs2,
                        !.protocol_version = r.protocol_version]
            IN  IF AfterClassify(r) = "panic"
                THEN Finish(c, t, "panic", cl, server[c])
                ELSE Update(c, [t EXCEPT !.pc = AfterClassify(r)], cl, server[c])
       \/ Finish(c, task[c], "err", client[c], server[c])

\* lines 93 and 96: client_send.write_u8(0x02)
WriteReplyId(c) ==
    /\ task[c].pc = "write_reply_id"
    /\ \/ Update(c, [task[c] EXCEPT !.pc = "write_reply_str"],
                 [client[c] EXCEPT !.sent = @ \o <<2>>], server[c])
       \/ Finish(c, task[c], "err", client[c], server[c])

\* lines 94 and 97: client_send.write_all(&string16_encode("-")), or string8
WriteReplyStr(c) ==
    /\ task[c].pc = "write_reply_str"
    /\ \/ Update(c, [task[c] EXCEPT !.pc = "read_login"],
                 [client[c] EXCEPT !.sent = @ \o ReplyString(task[c].is_ucs2)],
                 server[c])
       \/ \E part \in Prefixes(ReplyString(task[c].is_ucs2)) :
            Finish(c, task[c], "err", [client[c] EXCEPT !.sent = @ \o part], server[c])

\* ReadLogin as it would be if the five bytes were read into a buffer of
\* their own and second_stage_buffer kept its zeros
ReadLoginElsewhere(c, logins) ==
    /\ task[c].pc = "read_login"
    /\ \E login \in logins :
        \/ Update(c, [task[c] EXCEPT !.pc = "get_conn",
                                     !.protocol_version = LoginTag(login)],
                  [client[c] EXCEPT !.recv = @ \o login], server[c])
        \/ \E part \in Prefixes(login) :
            Finish(c, task[c], "err", [client[c] EXCEPT !.recv = @ \o part], server[c])

\* lines 104-109: client_recv.read_exact(&mut second_stage_buffer)
ReadLogin(c, logins) ==
    /\ task[c].pc = "read_login"
    /\ \E login \in logins :
        \/ Update(c, [task[c] EXCEPT !.pc = "get_conn",
                                     !.second_stage_buffer = login,
                                     !.protocol_version = LoginTag(login)],
                  [client[c] EXCEPT !.recv = @ \o login], server[c])
        \/ \E part \in Prefixes(login) :
            Finish(c,
                   [task[c] EXCEPT !.second_stage_buffer =
                        [i \in 1..LoginSize |-> IF i <= Len(part) THEN part[i] ELSE 0]],
                   "err", [client[c] EXCEPT !.recv = @ \o part], server[c])

----------------------------------------------------------------------------
(* handle_client_conn: route resolution and the backend connection.        *)

\* line 117: pool.get_conn()
GetConn(c) ==
    /\ task[c].pc = "get_conn"
    /\ \/ Update(c, [task[c] EXCEPT !.pc = "exec_first"], client[c], server[c])
       \/ Finish(c, task[c], "err", client[c], server[c])

\* lines 118-125: the query, and the choice of backend_server
ExecFirst(c) ==
    /\ task[c].pc = "exec_first"
    /\ \/ LET backend_servers == exec_first(protocol_rules, task[c].protocol_version)
          IN  Update(c, [task[c] EXCEPT !.pc = "connect",
                                        !.lookups = @ + 1,
                                        !.backend_servers = backend_servers,
                                        !.backend_server = BackendServer(backend_servers)],
                     client[c], server[c])
       \/ Finish(c, [task[c] EXCEPT !.lookups = @ + 1], "err", client[c], server[c])

\* Connect as it would be if a failed connect were tried once more
ConnectRetries(c) ==
    /\ task[c].pc = "connect"
    /\ \/ Update(c, [task[c] EXCEPT !.pc = "write_prelude", !.connects = @ + 1], client[c],
                 [server[c] EXCEPT !.open = TRUE, !.addr = task[c].backend_server])
       \/ IF task[c].connects = 0
          THEN Update(c, [task[c] EXCEPT !.connects = @ + 1], client[c], server[c])
          ELSE Finish(c, [task[c] EXCEPT !.connects = @ + 1], "err", client[c], server[c])

\* line 128: TcpStream::connect(backend_server)
Connect(c) ==
    /\ task[c].pc = "connect"
    /\ \/ Update(c, [task[c] EXCEPT !.pc = "write_prelude", !.connects = @ + 1], client[c],
                 [server[c] EXCEPT !.open = TRUE, !.addr = task[c].backend_server])
       \/ Finish(c, [task[c] EXCEPT !.connects = @ + 1], "err", client[c], server[c])

\* lines 156-163: the two peer_addr calls, then the copies start
StartSplice(c, t, cl, sv) ==
    \/ Update(c, [t EXCEPT !.pc = "splice",
                           !.client_to_server.state = "running",
                           !.server_to_client.state = "running"], cl, sv)
    \/ Finish(c, [t EXCEPT !.pc = "peer_addr"], "err", cl, sv)

\* line 132: server_send.write_all(&buf_raw[..read_count])
WritePrelude(c) ==
    /\ task[c].pc = "write_prelude"
    /\ LET bytes == PreludeBytes(task[c].buf_raw, task[c].read_count)
           next == AfterPrelude(task[c].block_connection_hash_response)
       IN  \/ /\ next # "splice"
              /\ Update(c, [task[c] EXCEPT !.pc = next], client[c],
                        [server[c] EXCEPT !.sent = @ \o bytes])
           \/ /\ next = "splice"
              /\ StartSplice(c, task[c], client[c], [server[c] EXCEPT !.sent = @ \o bytes])
           \/ \E part \in Prefixes(bytes) :
                Finish(c, task[c], "err", client[c], [server[c] EXCEPT !.sent = @ \o part])

\* lines 136-148: server_recv.read_exact(&mut buf_temp), and the drain length
ReadReplyHeader(c) ==
    /\ task[c].pc = "read_reply_header"
    /\ \E header \in Headers :
        \/ LET d == DrainSize(task[c].is_ucs2, I16(header[2], header[3]), overflow_checks)
               sv == [server[c] EXCEPT !.header = header]
           IN  IF d.panic THEN Finish(c, task[c], "panic", client[c], sv)
               ELSE Update(c, [task[c] EXCEPT !.pc = "read_reply_body",
                                              !.buf_temp_size = d.size], client[c], sv)
        \/ \E part \in Prefixes(header) :
            Finish(c, task[c], "err", client[c], [server[c] EXCEPT !.header = part])

\* line 149: server_recv.read_exact(&mut buf_temp_recv_two); an empty buffer
\* is filled without a read
ReadReplyBody(c) ==
    /\ task[c].pc = "read_reply_body"
    /\ \/ Update(c, [task[c] EXCEPT !.pc = "write_login"], client[c],
                 [server[c] EXCEPT !.body = task[c].buf_temp_size])
       \/ \E got \in {0, task[c].buf_temp_size - 1} :
            /\ got >= 0
            /\ got < task[c].buf_temp_size
            /\ Finish(c, task[c], "err", client[c], [server[c] EXCEPT !.body = got])

\* line 152: server_send.write_all(&second_stage_buffer)
WriteLogin(c) ==
    /\ task[c].pc = "write_login"
    /\ \/ StartSplice(c, task[c], client[c],
                      [server[c] EXCEPT !.sent = @ \o task[c].second_stage_buffer])
       \/ \E part \in Prefixes(task[c].second_stage_buffer) :
            Finish(c, task[c], "err", client[c], [server[c] EXCEPT !.sent = @ \o part])

----------------------------------------------------------------------------
(* handle_client_conn: the bidirectional copy under try_join!.             *)

\* try_join! once a copy has returned Ok: the task goes on to drop both
\* streams when the other copy has returned Ok too, and keeps waiting if not
JoinOk(c, t, cl, sv) ==
    IF t.client_to_server.state = "done" /\ t.server_to_client.state = "done"
    THEN Finish(c, t, "ok", cl, sv)
    ELSE Update(c, t, cl, sv)

\* CopyChunk writing its buffer twice
CopyChunkTwice(buf) == buf \o buf

\* the bytes a copy's write appends to its writer
CopyChunk(buf) == buf

\* io::copy(&mut client_recv, &mut server_send): a read, the client sending
\* the bytes of stream
ClientToServerReadFrom(c, stream) ==
    /\ task[c].pc = "splice"
    /\ task[c].client_to_server.state = "running"
    /\ task[c].client_to_server.buf = <<>>
    /\ LET at == task[c].client_to_server.amt
       IN  \/ \E k \in 1..(Len(stream) - at) :
                LET chunk == SubSeq(stream, at + 1, at + k)
                IN  Update(c, [task[c] EXCEPT !.client_to_server.buf = chunk],
                           [client[c] EXCEPT !.recv = @ \o chunk], server[c])
           \/ JoinOk(c, [task[c] EXCEPT !.client_to_server.state = "done"],
                     client[c], server[c])
           \/ Finish(c, task[c], "err", client[c], server[c])

ClientToServerRead(c) == ClientToServerReadFrom(c, ClientStream)

\* io::copy(&mut client_recv, &mut server_send): a write
ClientToServerWrite(c) ==
    /\ task[c].pc = "splice"
    /\ task[c].client_to_server.buf # <<>>
    /\ LET buf == task[c].client_to_server.buf
       IN  \/ Update(c, [task[c] EXCEPT !.client_to_server.buf = <<>>,
                                        !.client_to_server.amt = @ + Len(buf)],
                     client[c], [server[c] EXCEPT !.sent = @ \o CopyChunk(buf)])
           \/ \E part \in Prefixes(buf) :
                Finish(c, task[c], "err", client[c], [server[c] EXCEPT !.sent = @ \o part])

\* io::copy(&mut server_recv, &mut client_send): a read, the backend sending
\* the bytes of stream
ServerToClientReadFrom(c, stream) ==
    /\ task[c].pc = "splice"
    /\ task[c].server_to_client.state = "running"
    /\ task[c].server_to_client.buf = <<>>
    /\ LET at == task[c].server_to_client.amt
       IN  \/ \E k \in 1..(Len(stream) - at) :
                LET chunk == SubSeq(stream, at + 1, at + k)
                IN  Update(c, [task[c] EXCEPT !.server_to_client.buf = chunk],
                           client[c], [server[c] EXCEPT !.recv = @ \o chunk])
           \/ JoinOk(c, [task[c] EXCEPT !.server_to_client.state = "done"],
                     client[c], server[c])
           \/ Finish(c, task[c], "err", client[c], server[c])

ServerToClientRead(c) == ServerToClientReadFrom(c, ServerStream)

\* io::copy(&mut server_recv, &mut client_send): a write
ServerToClientWrite(c) ==
    /\ task[c].pc = "splice"
    /\ task[c].server_to_client.buf # <<>>
    /\ LET buf == task[c].server_to_client.buf
       IN  \/ Update(c, [task[c] EXCEPT !.server_to_client.buf = <<>>,
                                        !.server_to_client.amt = @ + Len(buf)],
                     [client[c] EXCEPT !.sent = @ \o CopyChunk(buf)], server[c])
           \/ \E part \in Prefixes(buf) :
                Finish(c, task[c], "err", [client[c] EXCEPT !.sent = @ \o part], server[c])

----------------------------------------------------------------------------
(* The specifications.                                                     *)

\* one connection from accept to the end of its task, and the accept loop
Next ==
    \/ AcceptErr
    \/ \E c \in Conns :
        \/ Accept(c)
        \/ FirstRead(c, ScenarioReads)
        \/ WriteReplyId(c)
        \/ WriteReplyStr(c)
        \/ ReadLogin(c, ScenarioLogins)
        \/ GetConn(c)
        \/ ExecFirst(c)
        \/ Connect(c)
        \/ WritePrelude(c)
        \/ ReadReplyHeader(c)
        \/ ReadReplyBody(c)
        \/ WriteLogin(c)
        \/ ClientToServerRead(c)
        \/ ClientToServerWrite(c)
        \/ ServerToClientRead(c)
        \/ ServerToClientWrite(c)

Spec == Init /\ [][Next]_vars

\* the classifier alone, over every first read of ClassifierReads
NextClassify ==
    \E c \in Conns :
        \/ Accept(c)
        \/ FirstRead(c, ClassifierReads)
        \/ WriteReplyId(c)
        \/ WriteReplyStr(c)
        \/ ReadLogin(c, Logins)

SpecClassify == Init /\ [][NextClassify]_vars

\* the accept loop with two connections, each over a few first reads
ListenerConns == {"c1", "c2"}

ListenerReads == {<<254, 1>>, <<2, 0, 1, 0, 104>>, <<16, 0, 128, 128, 128, 128, 128>>}

ListenerLogins == {<<1, 0, 0, 0, 17>>}

ListenerClientStream == <<161>>

ListenerServerStream == <<177>>

InitListener ==
    /\ listener = [state |-> "listening", last_accept |-> "none"]
    /\ task = [c \in ListenerConns |-> NewTask]
    /\ client = [c \in ListenerConns |-> NewStream]
    /\ server = [c \in ListenerConns |-> NewStream]
    /\ protocol_rules \in RuleTables
    /\ overflow_checks \in BOOLEAN
    /\ var_int = NoVarInt

NextListener ==
    \/ AcceptErr
    \/ \E c \in ListenerConns :
        \/ Accept(c)
        \/ FirstRead(c, ListenerReads)
        \/ WriteReplyId(c)
        \/ WriteReplyStr(c)
        \/ ReadLogin(c, ListenerLogins)
        \/ GetConn(c)
        \/ ExecFirst(c)
        \/ Connect(c)
        \/ WritePrelude(c)
        \/ ReadReplyHeader(c)
        \/ ReadReplyBody(c)
        \/ WriteLogin(c)
        \/ ClientToServerReadFrom(c, ListenerClientStream)
        \/ ClientToServerWrite(c)
        \/ ServerToClientReadFrom(c, ListenerServerStream)
        \/ ServerToClientWrite(c)

SpecListener == InitListener /\ [][NextListener]_vars

\* u32 values around the encoding's length boundaries, as limbs
VarIntValues ==
    {<<lo, hi>> : lo \in {0, 1, 127, 128, 16383, 16384, 65535},
                  hi \in {0, 1, 31, 32, 4095, 4096, 65535}}

\* v >> 7 of a u32
Shr7(v) == <<(v[1] \div 128) + ((v[2] % 128) * 512), v[2] \div 128>>

\* the encoding read_var_int reads: seven bits a byte, least significant
\* first, the continuation bit on every byte but the last
RECURSIVE VarIntEncoding(_)
VarIntEncoding(v) ==
    IF v[2] = 0 /\ v[1] < 128 THEN <<v[1]>>
    ELSE <<CONTINUE_BIT + (v[1] % 128)>> \o VarIntEncoding(Shr7(v))

\* read_var_int on its own: a buffer holding any bytes, or an encoding and
\* what follows it, read from its start
VarIntReads ==
    Seqs(VarBytes \cup {0}, 1, MaxVarLen)
        \cup {VarIntEncoding(v) \o rest : v \in VarIntValues, rest \in {<<>>, <<255>>, <<128, 1>>}}

InitVarInt ==
    /\ listener = [state |-> "listening", last_accept |-> "none"]
    /\ task = [c \in Conns |-> NewTask]
    /\ client = [c \in Conns |-> NewStream]
    /\ server = [c \in Conns |-> NewStream]
    /\ protocol_rules = <<>>
    /\ overflow_checks \in BOOLEAN
    /\ var_int \in {[NoVarInt EXCEPT !.buf = b] : b \in VarIntReads}

ReadVarInt ==
    /\ ~var_int.done
    /\ LET r == read_var_int(var_int.buf, 0)
       IN  var_int' = [var_int EXCEPT !.done = TRUE, !.value = r.value,
                                      !.at = r.at, !.panic = r.panic]
    /\ UNCHANGED <<listener, task, client, server, protocol_rules, overflow_checks>>

NextVarInt == ReadVarInt

SpecVarInt == InitVarInt /\ [][NextVarInt]_vars

----------------------------------------------------------------------------
(* What the properties read off a connection.                              *)

IsPrefix(a, b) == Len(a) <= Len(b) /\ SubSeq(b, 1, Len(a)) = a

\* the first read of connection c, as the client stream shows it
FirstBytes(c) == SubSeq(client[c].recv, 1, task[c].read_count)

\* the bytes read from the client after the first read
LaterBytes(c) == SubSeq(client[c].recv, task[c].read_count + 1, Len(client[c].recv))

\* byte i of the first read, counted from 0; -1 when the read was shorter
ByteOf(c, i) == IF i < task[c].read_count THEN client[c].recv[i + 1] ELSE -1

HasRead(c) == task[c].pc \notin {"idle", "read_first"} /\ task[c].ended_at # "read_first"

Classified(c) == task[c].pc # "idle" /\ task[c].pc # "read_first" /\ task[c].read_count >= 1

\* the six-rule table: the number of the first rule whose guard holds
FirstRule(c) ==
    LET n == task[c].read_count
        b0 == ByteOf(c, 0)
        b1 == ByteOf(c, 1)
    IN  IF n > 1 /\ b1 = 0 /\ b0 \notin {0, 2} THEN 1
        ELSE IF b0 = 254 /\ b1 = 1 THEN 2
        ELSE IF b0 = 2 /\ 33 <= b1 /\ b1 <= 80 THEN 3
        ELSE IF b0 = 254 /\ n = 1 THEN 4
        ELSE IF b0 = 2 THEN 5
        ELSE 6

IsDecimal(str) ==
    /\ Len(str) >= 1
    /\ \A i \in 1..Len(str) : \E d \in 1..10 : SubSeq(str, i, i) = Digits[d]

\* the routing table's answer for a tag
RouteOf(tag) ==
    IF \E i \in 1..Len(protocol_rules) : protocol_rules[i][3] = tag
    THEN protocol_rules[CHOOSE i \in 1..Len(protocol_rules) : protocol_rules[i][3] = tag][2]
    ELSE default_server

\* the synthetic reply as the wire shows it
SyntheticReply(c) == IF task[c].is_ucs2 THEN <<2, 0, 1, 0, 45>> ELSE <<2, 0, 1, 45>>

----------------------------------------------------------------------------
(* Properties.                                                             *)

\* C1: a tag, once computed, is the tag of the first rule of the six-rule
\* table whose guard holds on the first read; rules 2, 3, 4 and 6 compute it
\* at once, rule 1 unless its varint panics, rule 5 from the big-endian int32
\* in bytes 1..4 of the five-byte follow-up read.
C1_FirstMatchingRule ==
    \A c \in Conns :
        Classified(c) =>
            LET tag == task[c].protocol_version
                rule == FirstRule(c)
                later == LaterBytes(c)
            IN  /\ rule = 1 =>
                    \/ task[c].exit = "panic" /\ tag = ""
                    \/ SubSeq(tag, 1, 1) = "N" /\ IsDecimal(SubSeq(tag, 2, Len(tag)))
                /\ rule = 2 => tag = "PreNettyPost39ListPing"
                /\ rule = 3 => tag = "P" \o DecNat(ByteOf(c, 1))
                /\ rule = 4 => tag = "PreNettyPre39ListPing"
                /\ rule = 5 =>
                    IF Len(later) >= LoginSize
                    THEN tag = "P" \o DecI32(I32(later[2], later[3], later[4], later[5]))
                    ELSE tag = ""
                /\ rule = 6 => tag = "Unknown"

\* C1 witness: a first read 02 21, on which the guards of rules 3 and 5 hold,
\* has the tag of rule 3.
C1_Witness ==
    \E c \in Conns :
        /\ Classified(c)
        /\ FirstBytes(c) = <<2, 33>>
        /\ task[c].protocol_version = "P33"

\* C2: the classification of a non-empty first read never panics, and reads
\* further client input only under rule 5.
C2_ClassifierTotal ==
    \A c \in Conns :
        task[c].read_count >= 1 =>
            /\ ~(task[c].exit = "panic" /\ task[c].ended_at = "read_first")
            /\ LaterBytes(c) # <<>> => FirstRule(c) = 5

\* C3: when the copy starts and while it runs, the bytes written to the
\* backend before it are the first read, followed by the five bytes of the
\* follow-up read exactly when block_connection_hash_response is set.
C3_PreludeFaithful ==
    \A c \in Conns :
        task[c].pc = "splice" =>
            LET before == SubSeq(server[c].sent, 1,
                                 Len(server[c].sent) - task[c].client_to_server.amt)
            IN  before = FirstBytes(c) \o
                    (IF task[c].block_connection_hash_response
                     THEN SubSeq(LaterBytes(c), 1, LoginSize) ELSE <<>>)

\* C3 witness: a rule-5 connection in the copy, prelude and login delivered.
C3_Witness ==
    \E c \in Conns :
        /\ task[c].pc = "splice"
        /\ task[c].block_connection_hash_response
        /\ task[c].read_count = 5
        /\ server[c].sent = <<2, 0, 1, 0, 104, 1, 0, 0, 0, 17>>

\* C4: the bytes written to the backend are a prefix of the bytes read from
\* the client, and the bytes written to the client after the (possibly cut)
\* synthetic reply are a prefix of the bytes read from the backend after the
\* drained reply.
C4_OrderedNoDuplicates ==
    \A c \in Conns :
        /\ IsPrefix(server[c].sent, client[c].recv)
        /\ \E k \in 0..Len(client[c].sent) :
            LET reply == SubSeq(client[c].sent, 1, k)
                copied == SubSeq(client[c].sent, k + 1, Len(client[c].sent))
            IN  /\ IsPrefix(reply, SyntheticReply(c))
                /\ k > 0 => task[c].block_connection_hash_response
                /\ copied # <<>> /\ task[c].block_connection_hash_response
                        => reply = SyntheticReply(c)
                /\ IsPrefix(copied, server[c].recv)

\* C4 witness: a rule-5 connection that delivered two spliced bytes each way.
C4_Witness ==
    \E c \in Conns :
        /\ task[c].block_connection_hash_response
        /\ task[c].client_to_server.amt >= 2
        /\ task[c].server_to_client.amt >= 2
        /\ Len(server[c].sent) = task[c].read_count + LoginSize + task[c].client_to_server.amt
        /\ Len(client[c].sent) = Len(SyntheticReply(c)) + task[c].server_to_client.amt

\* C5: in a rule-5 connection the synthetic reply is on the client stream
\* before any byte of the login packet is read; the backend is connected and
\* written to only after the five login bytes are read; and a login byte is
\* written to the backend only after the backend's reply, three bytes of
\* header and discard_len of body, has been read.
C5_Rule5Order ==
    \A c \in Conns :
        task[c].block_connection_hash_response =>
            /\ LaterBytes(c) # <<>> => IsPrefix(SyntheticReply(c), client[c].sent)
            /\ (server[c].open \/ server[c].addr # "" \/ server[c].sent # <<>>)
                    => Len(LaterBytes(c)) >= LoginSize
            /\ Len(server[c].sent) > task[c].read_count =>
                    /\ Len(server[c].header) = HeaderSize
                    /\ server[c].body =
                        (IF task[c].is_ucs2 THEN 2 ELSE 1)
                            * I16(server[c].header[2], server[c].header[3])

\* C5 witness: a rule-5 connection whose login reached the backend after a
\* reply with a body was drained.
C5_Witness ==
    \E c \in Conns :
        /\ task[c].block_connection_hash_response
        /\ task[c].is_ucs2
        /\ server[c].header = <<2, 0, 1>>
        /\ server[c].body = 2
        /\ Len(server[c].sent) = task[c].read_count + LoginSize

\* C6: once either direction of the copy has terminated, the client and the
\* backend connection are both closed.
C6_EitherEndClosesBoth ==
    \A c \in Conns :
        (task[c].client_to_server.state = "done" \/ task[c].server_to_client.state = "done")
            => ~client[c].open /\ ~server[c].open

\* C7: under rule 5 the framing is UCS-2 exactly when the payload, n - 3,
\* equals twice the int16 at bytes 1..2.
C7_FramingByExactLength ==
    \A c \in Conns :
        task[c].block_connection_hash_response =>
            (task[c].is_ucs2 <=>
                task[c].read_count - 3 = 2 * I16(ByteOf(c, 1), ByteOf(c, 2)))

\* C8: a connection classified "Unknown" is not ended by the classification:
\* it goes on to the routing table, and the backend it connects to is the
\* row for "Unknown", or the default when there is none.
C8_UnknownIsRouted ==
    \A c \in Conns :
        task[c].protocol_version = "Unknown" =>
            /\ task[c].ended_at # "read_first"
            /\ task[c].backend_server # "" => task[c].backend_server = RouteOf("Unknown")
            /\ server[c].addr # "" => server[c].addr = RouteOf("Unknown")
            /\ task[c].pc = "splice" => server[c].open /\ server[c].addr # ""

\* C8 witness: an "Unknown" connection spliced to the backend of its row.
C8_Witness ==
    \E c \in Conns :
        /\ task[c].protocol_version = "Unknown"
        /\ FirstBytes(c) = <<255, 255, 255>>
        /\ task[c].pc = "splice"
        /\ server[c].open
        /\ server[c].addr = "honeypot:25565"

\* C9: the backend address is the routing table's value for the tag when
\* there is a row and default_server when there is none; a query that finds
\* no row goes on to connect.
C9_RouteResolution ==
    \A c \in Conns :
        /\ task[c].backend_server # "" =>
                task[c].backend_server = RouteOf(task[c].protocol_version)
        /\ server[c].addr # "" => server[c].addr = RouteOf(task[c].protocol_version)
        /\ task[c].pc \in {"connect", "write_prelude", "splice"} =>
                task[c].backend_server # ""

\* C9 witness: with rows in the table, a tag with a row is connected to the
\* row's host.
C9_Witness ==
    \E c \in Conns :
        /\ task[c].protocol_version = "P17"
        /\ protocol_rules # <<>>
        /\ server[c].open
        /\ server[c].addr = "legacy:25565"

\* C10: after accept has returned an error the listener is still accepting.
C10_AcceptErrorContinues ==
    listener.last_accept = "err" => listener.state = "listening"

\* C11: a step in which one connection's task fails (an I/O error returned
\* or a panic) leaves the listener accepting and leaves every other
\* connection's task and sockets as they were.
C11_FailureIsolated ==
    [][\A c \in DOMAIN task :
          (task[c].exit = "running" /\ task'[c].exit \in {"err", "panic"}) =>
              /\ listener' = listener
              /\ listener'.state = "listening"
              /\ \A d \in DOMAIN task \ {c} :
                    /\ task'[d] = task[d]
                    /\ client'[d] = client[d]
                    /\ server'[d] = server[d]]_vars

\* C11 witness: one task has panicked on its varint and another has failed
\* with an error, or is still splicing, under a listener that still accepts.
C11_Witness ==
    \E c, d \in DOMAIN task :
        /\ c # d
        /\ task[c].exit = "panic"
        /\ task[c].ended_at = "read_first"
        /\ task[d].pc = "splice"
        /\ task[d].server_to_client.amt > 0
        /\ listener.state = "listening"

\* C12 as stated: the first read 10 00 00 D2 04 09 6C 6F 63 61 6C 68 6F 73
\* 74 63 DD 01 is tagged "N754", gets no synthetic reply and is forwarded
\* whole.
C12_ExampleTaggedN754 ==
    \A c \in Conns :
        (HasRead(c) /\ FirstBytes(c) = HandshakeExample) =>
            /\ task[c].protocol_version = "N754"
            /\ ~task[c].block_connection_hash_response
            /\ IsPrefix(client[c].sent, ServerStream)
            /\ task[c].pc = "splice" => IsPrefix(HandshakeExample, server[c].sent)

\* C12: for the first read 10 00 00 D2 04 09 6C 6F 63 61 6C 68 6F 73 74 63
\* DD 01 rule 1 fires, the length varint takes byte 0, byte 1 is skipped, the
\* protocol varint is byte 2 and decodes to 0, and the tag is "N0"; nothing
\* but copied backend bytes is written to the client, and the 18 bytes are
\* what the backend is sent first.
C12_ExampleTaggedN0 ==
    \A c \in Conns :
        (HasRead(c) /\ FirstBytes(c) = HandshakeExample) =>
            /\ FirstRule(c) = 1
            /\ read_var_int(HandshakeExample, 0) = [value |-> FromNat(16, 2), at |-> 1, panic |-> FALSE]
            /\ read_var_int(HandshakeExample, 2) = [value |-> FromNat(0, 2), at |-> 3, panic |-> FALSE]
            /\ task[c].protocol_version = "N0"
            /\ ~task[c].block_connection_hash_response
            /\ IsPrefix(client[c].sent, ServerStream)
            /\ task[c].pc = "splice" => IsPrefix(HandshakeExample, server[c].sent)

\* C12 witness: the example handshake has reached the copy, all 18 bytes sent.
C12_Witness ==
    \E c \in Conns :
        /\ FirstBytes(c) = HandshakeExample
        /\ task[c].pc = "splice"
        /\ server[c].open
        /\ server[c].sent = HandshakeExample
        /\ client[c].sent = <<>>

\* the tag grammar: "N" and a non-negative decimal, "P" and a positive
\* decimal, or one of the three fixed tags
WellFormedTag(tag) ==
    \/ tag \in {"PreNettyPost39ListPing", "PreNettyPre39ListPing", "Unknown"}
    \/ /\ Len(tag) >= 2
       /\ SubSeq(tag, 1, 1) = "N"
       /\ IsDecimal(SubSeq(tag, 2, Len(tag)))
    \/ /\ Len(tag) >= 2
       /\ SubSeq(tag, 1, 1) = "P"
       /\ IsDecimal(SubSeq(tag, 2, Len(tag)))
       /\ SubSeq(tag, 2, 2) # "0"

\* C13: every tag a connection is given is "N<n>" with n non-negative,
\* "P<n>" with n positive, or one of the three fixed tags; under rule 5 this
\* holds whatever the int32 of the follow-up read is.
C13_TagWellFormed ==
    \A c \in Conns :
        task[c].protocol_version # "" => WellFormedTag(task[c].protocol_version)

\* C14: read_var_int returns v for the encoding of every u32 v, having
\* consumed the encoding's one to five bytes and nothing after them; it
\* panics exactly when the first five bytes all carry the continuation bit;
\* otherwise it stops at the first byte without that bit and returns the
\* bytes' seven-bit groups, least significant first, the fifth byte's bits
\* above bit 31 lost.
C14_VarIntRoundTrip ==
    var_int.done =>
        LET buf == var_int.buf
            Cont(i) == i <= Len(buf) /\ buf[i] >= 128
            last == IF \E i \in 1..5 : ~Cont(i) THEN CHOOSE i \in 1..5 : ~Cont(i) /\ \A j \in 1..(i - 1) : Cont(j)
                    ELSE 5
            Seg(i) == IF i <= last /\ i <= Len(buf) THEN buf[i] % 128 ELSE 0
        IN  /\ \A v \in VarIntValues :
                LET encoding == VarIntEncoding(v)
                IN  IsPrefix(encoding, buf) =>
                        /\ Len(encoding) \in 1..5
                        /\ ~var_int.panic
                        /\ var_int.value = v
                        /\ var_int.at = Len(encoding)
            /\ var_int.panic <=> \A i \in 1..5 : Cont(i)
            /\ var_int.at = last
            /\ ~var_int.panic =>
                    var_int.value =
                        << Seg(1) + (Seg(2) * 128) + ((Seg(3) % 4) * 16384),
                           (Seg(3) \div 4) + (Seg(4) * 32) + ((Seg(5) % 16) * 4096) >>

\* C14 witness: a five-byte varint whose fifth byte ends it and has bits
\* above bit 31 set has been read as 2^32 - 1.
C14_Witness ==
    /\ var_int.done
    /\ var_int.buf = <<255, 255, 255, 255, 127>>
    /\ var_int.value = <<65535, 65535>>
    /\ var_int.at = 5
    /\ ~var_int.panic

\* C15: with the suppress flag set, for a reply header whose int16 length is
\* in 0..32767 the task does not fail on the header, reads exactly the
\* discard length after it (twice the length under UCS-2, the length under
\* MUTF-8), and passes none of the reply to the client.
C15_DrainsWholeReply ==
    \A c \in Conns :
        (task[c].block_connection_hash_response /\ Len(server[c].header) = HeaderSize) =>
            LET str_length == I16(server[c].header[2], server[c].header[3])
                discard_len == IF task[c].is_ucs2 THEN 2 * str_length ELSE str_length
            IN  str_length >= 0 =>
                    /\ task[c].exit # "panic"
                    /\ task[c].pc \in {"read_reply_body", "write_login", "splice"} =>
                            task[c].buf_temp_size = discard_len
                    /\ task[c].pc \in {"write_login", "splice"} => server[c].body = discard_len
                    /\ IsPrefix(SubSeq(client[c].sent, Len(SyntheticReply(c)) + 1,
                                       Len(client[c].sent)), ServerStream)

\* second_stage_buffer holds five bytes read from the client after the first
\* read
HoldsLogin(c) ==
    /\ Len(LaterBytes(c)) >= LoginSize
    /\ task[c].second_stage_buffer = SubSeq(LaterBytes(c), 1, LoginSize)

\* where a rule-5 task is between setting its flag and the end of the
\* five-byte read
Rule5Exchange == {"write_reply_id", "write_reply_str", "read_login"}

\* C16 as stated: in every state second_stage_buffer holds five bytes read
\* from the client exactly when block_connection_hash_response is set.
C16_LoginIffFlagAlways ==
    \A c \in Conns :
        HoldsLogin(c) <=> task[c].block_connection_hash_response

\* C16: once a connection's tag is computed, second_stage_buffer holds five
\* bytes read from the client exactly when block_connection_hash_response is
\* set; a connection with the flag set and no tag is writing the synthetic
\* reply or reading the five bytes, or has ended there, and its buffer does
\* not hold five bytes read from the client.
C16_LoginIffFlagOnceTagged ==
    \A c \in Conns :
        /\ task[c].protocol_version # "" =>
                (HoldsLogin(c) <=> task[c].block_connection_hash_response)
        /\ (task[c].block_connection_hash_response /\ task[c].protocol_version = "") =>
                /\ ~HoldsLogin(c)
                /\ \/ task[c].pc \in Rule5Exchange
                   \/ task[c].pc = "ended" /\ task[c].ended_at \in Rule5Exchange
        /\ ~task[c].block_connection_hash_response =>
                task[c].second_stage_buffer = [i \in 1..LoginSize |-> 0]

\* C16 witness: a rule-5 connection is tagged and holds the five bytes read.
C16_Witness ==
    \E c \in Conns :
        /\ task[c].block_connection_hash_response
        /\ task[c].protocol_version = "P17"
        /\ task[c].second_stage_buffer = <<1, 0, 0, 0, 17>>
        /\ HoldsLogin(c)
        /\ task[c].pc = "get_conn"

\* C17: while a connection is at any of its suspension points, the listener
\* can accept another connection, and that connection can take the step it
\* is waiting for, whichever it is, up to the end of its copy.
C17_ListenerNeverBlocks ==
    \A c, d \in DOMAIN task :
        (c # d /\ Live(task[c])) =>
            /\ (listener.state = "listening" /\ task[d].pc = "idle") => ENABLED Accept(d)
            /\ task[d].pc = "read_first" => ENABLED FirstRead(d, ListenerReads)
            /\ task[d].pc = "write_reply_id" => ENABLED WriteReplyId(d)
            /\ task[d].pc = "write_reply_str" => ENABLED WriteReplyStr(d)
            /\ task[d].pc = "read_login" => ENABLED ReadLogin(d, ListenerLogins)
            /\ task[d].pc = "get_conn" => ENABLED GetConn(d)
            /\ task[d].pc = "exec_first" => ENABLED ExecFirst(d)
            /\ task[d].pc = "connect" => ENABLED Connect(d)
            /\ task[d].pc = "write_prelude" => ENABLED WritePrelude(d)
            /\ task[d].pc = "read_reply_header" => ENABLED ReadReplyHeader(d)
            /\ task[d].pc = "read_reply_body" => ENABLED ReadReplyBody(d)
            /\ task[d].pc = "write_login" => ENABLED WriteLogin(d)
            /\ task[d].pc = "splice" =>
                    ENABLED (\/ ClientToServerReadFrom(d, ListenerClientStream)
                             \/ ClientToServerWrite(d)
                             \/ ServerToClientReadFrom(d, ListenerServerStream)
                             \/ ServerToClientWrite(d))

\* C17 witness: one connection waits for its five-byte read while another
\* has been classified and has copied to completion, the listener accepting.
C17_Witness ==
    \E c, d \in DOMAIN task :
        /\ c # d
        /\ task[c].pc = "read_login"
        /\ task[d].exit = "ok"
        /\ task[d].ended_at = "splice"
        /\ task[d].protocol_version = "PreNettyPost39ListPing"
        /\ task[d].client_to_server.amt > 0
        /\ listener.state = "listening"

\* the rule-5 follow-up read of connection c has failed
LoginReadFailed(c) == task[c].ended_at = "read_login" /\ task[c].exit = "err"

\* the rule-1 varint of connection c had no terminator within five bytes
VarIntOverflowed(c) ==
    /\ task[c].ended_at = "read_first"
    /\ task[c].exit = "panic"
    /\ task[c].read_count >= 1
    /\ FirstRule(c) = 1

\* connection c is dropped and no backend connection was opened for it
DroppedWithoutBackend(c) ==
    /\ task[c].pc = "ended"
    /\ ~client[c].open
    /\ ~server[c].open
    /\ server[c].addr = ""
    /\ server[c].sent = <<>>

C19_OneLookupOneConnect ==
    \A c \in Conns :
        /\ task[c].lookups <= 1
        /\ task[c].connects <= 1
        /\ task[c].lookups = 1 => task[c].protocol_version # ""
        /\ task[c].connects = 1 => task[c].lookups = 1 /\ task[c].backend_server # ""
        /\ task[c].pc \in {"exec_first", "connect"} => task[c].protocol_version # ""
        /\ task[c].pc = "ended" => ~ENABLED (GetConn(c) \/ ExecFirst(c) \/ Connect(c))
        /\ (task[c].lookups = 1 /\ task[c].pc # "connect") => ~ENABLED ExecFirst(c)
        /\ task[c].connects = 1 => ~ENABLED Connect(c)

\* C19 witness: a connection whose one connect failed has ended, its query
\* made once.
C19_Witness ==
    \E c \in Conns :
        /\ task[c].ended_at = "connect"
        /\ task[c].exit = "err"
        /\ task[c].lookups = 1
        /\ task[c].connects = 1
        /\ ~server[c].open

\* C20: a connection whose first read returned no byte is tagged "Unknown",
\* has nothing written to its client but what was copied from the backend,
\* has the route of "Unknown" looked up and connected to, and starts its copy
\* with nothing written to the backend.
C20_EmptyFirstRead ==
    \A c \in Conns :
        (HasRead(c) /\ task[c].read_count = 0) =>
            /\ Branch(task[c].buf_raw) = 6
            /\ task[c].protocol_version = "Unknown"
            /\ ~task[c].block_connection_hash_response
            /\ IsPrefix(client[c].sent, ServerStream)
            /\ task[c].pc \notin {"splice", "ended"} => client[c].sent = <<>>
            /\ task[c].backend_server # "" => task[c].backend_server = RouteOf("Unknown")
            /\ server[c].addr # "" => server[c].addr = RouteOf("Unknown")
            /\ task[c].pc = "write_prelude" => server[c].open /\ server[c].sent = <<>>
            /\ task[c].pc = "splice" =>
                    /\ server[c].open
                    /\ task[c].lookups = 1
                    /\ Len(server[c].sent) = task[c].client_to_server.amt
            /\ IsPrefix(server[c].sent, ClientStream)

\* C20 witness: after an empty first read the copy has started on the
\* backend of the "Unknown" row, nothing written to either side.
C20_Witness ==
    \E c \in Conns :
        /\ task[c].read_count = 0
        /\ client[c].recv = <<>>
        /\ task[c].pc = "splice"
        /\ server[c].open
        /\ server[c].addr = "honeypot:25565"
        /\ server[c].sent = <<>>
        /\ client[c].sent = <<>>

====
